---- MODULE Spec2Model ----
(***************************************************************************)
(* SpeedometerV2: the value driver of the gauge (the animation useEffect,  *)
(* the smoothing useEffect, the requestAnimationFrame callbacks step and   *)
(* tick) and the pure helpers clampPercentage and mapPercentToAngle.       *)
(*                                                                         *)
(* Numbers.  Percentages are fixed-point integers, Unit to one percent;    *)
(* ease(t) and sin(2*pi*t) are tables of the source's formulas sampled at  *)
(* t = k/EaseRes and t = k/SinRes, EaseScale to 1.0.  Unit is chosen so    *)
(* that 0.12 * delta and (to - boostedStart) * ease are exact for whole    *)
(* percentages.  Durations are in 1/TimeScale ms, the clock in ms.         *)
(*                                                                         *)
(* React.  A render commits new props; the passive effects of that render  *)
(* (cleanups of the effects whose dependencies changed, then the effects,  *)
(* in declaration order) run later in one flush, and the state setters     *)
(* called in one flush or in one frame callback are applied as one batch.  *)
(* A frame callback may fire between a commit and its effect flush.        *)
(***************************************************************************)
EXTENDS Integers, Sequences, FiniteSets, TLC

VARIABLES
    life,           \* "unmounted" | "mounted" | "gone": the component instance
    props,          \* the props of the last committed render
    effectsQueue,   \* passive effects of the last commit that have not run yet
    displayPercent, \* useState cell, line 62
    isAnimating,    \* useState cell, line 63
    rafRef,         \* rafRef.current, line 65
    mountedRef,     \* mountedRef.current, line 66
    cleanup,        \* the cleanup function the animation effect last returned
    pending,        \* frame callbacks scheduled with requestAnimationFrame
    fired,          \* the callback the last step of the system ran, NoCb if none
    lastOp,         \* the last step of the system
    hadPending,     \* whether a callback was scheduled when the last step began
    runOrigin,      \* what started the current run: "mount", "update" (no run
                    \* was active) or "restart" (an active run was replaced)
    propsChanged,   \* the last step was a re-render that passed different props
    cancelled       \* the scheduled callbacks the last step cancelled

vars == <<life, props, effectsQueue, displayPercent, isAnimating, rafRef,
          mountedRef, cleanup, pending, fired, lastOp, hadPending,
          runOrigin, propsChanged, cancelled>>

----------------------------------------------------------------------------
(* Fixed-point tables                                                      *)

\* round(1000 * ease(k/50)), k = 0..50, ease as defined at lines 111-116
EaseTab ==
    <<0, 43, 86, 127, 168, 207, 245, 283, 319, 354, 388, 421, 453, 484, 514,
      543, 571, 598, 624, 649, 673, 696, 718, 739, 759, 778, 797, 814, 831,
      846, 861, 875, 888, 901, 912, 923, 933, 942, 951, 959, 966, 972, 978,
      983, 987, 991, 994, 996, 998, 999, 1000>>

\* round(1000 * Math.sin(2*pi*k/16)), k = 0..15, line 151
SinTab ==
    <<0, 383, 707, 924, 1000, 924, 707, 383,
      0, -383, -707, -924, -1000, -924, -707, -383>>

EaseRes == Len(EaseTab) - 1
EaseScale == EaseTab[Len(EaseTab)]
SinRes == Len(SinTab)
Unit == 25 * EaseScale
TimeScale == Unit \div EaseScale

Min(a, b) == IF a <= b THEN a ELSE b
Max(a, b) == IF a >= b THEN a ELSE b
Abs(a) == IF a >= 0 THEN a ELSE -a

----------------------------------------------------------------------------
(* Numbers a prop can carry: a JS number is NaN or a value                 *)

NaN == [nan |-> TRUE, v |-> 0]
Num(x) == [nan |-> FALSE, v |-> x]

\* line 14-19
clampPercentageMissingUpper(value) ==
    IF value.nan THEN 0
    ELSE IF value.v < 0 THEN 0
    ELSE value.v

clampPercentageNoLower(value) ==
    IF value.nan THEN 0
    ELSE IF value.v > 100 * Unit THEN 100 * Unit
    ELSE value.v

clampPercentage(value) ==
    IF value.nan THEN 0
    ELSE IF value.v < 0 THEN 0
    ELSE IF value.v > 100 * Unit THEN 100 * Unit
    ELSE value.v

\* line 21-24; percent in Unit, result in Unit degrees
mapPercentToAngleHalfSpan(percent, halfSweepDeg) ==
    -(halfSweepDeg * Unit) + (percent * halfSweepDeg) \div 100

mapPercentToAngle(percent, halfSweepDeg) ==
    -(halfSweepDeg * Unit) + (percent * (2 * halfSweepDeg)) \div 100

droopDeg == 14
halfSweep == 90 + droopDeg

perPercentMs == 24
minDurationMs == 180
maxDurationMs == 2600
periodMs == 5200
null == 0

clampedStart(p) == clampPercentage(p.startValue)
clampedEnd(p) == clampPercentage(p.endValue)

----------------------------------------------------------------------------
(* Inputs                                                                  *)

MaxGapUnits == 2
FrameUnitMs == periodMs \div SinRes
\* time between an event and the next display frame, in ms
FrameGaps == {k * FrameUnitMs : k \in 1..MaxGapUnits}

PercentInputs == {-5, 30, 70, 150, 200}
PropValues == {NaN} \cup {Num(n * Unit) : n \in PercentInputs}
Props == [startValue : PropValues, endValue : PropValues, perpetual : BOOLEAN]

\* the props of the liveness specification: ascending, descending and empty runs
LiveProps ==
    [startValue : {Num(-5 * Unit), Num(150 * Unit)},
     endValue : {NaN, Num(70 * Unit)},
     perpetual : BOOLEAN]

\* the props of the numeric specification: one-shot runs between every pair of
\* whole percentages, and the values clampPercentage has to repair
WidePercents == 0..100
WideValues ==
    {NaN} \cup {Num(n * Unit) : n \in WidePercents \cup {-5, -1, 101, 150}}
WideProps == [startValue : WideValues, endValue : WideValues, perpetual : {FALSE}]

----------------------------------------------------------------------------
(* The browser's frame queue                                               *)

NoCb == [id |-> null, kind |-> "none", boostedStart |-> 0, to |-> 0,
         durationMs |-> 0, center |-> 0, amplitude |-> 0, elapsed |-> 0]

Ids(pend) == {cb.id : cb \in pend}

\* requestAnimationFrame returns a handle no scheduled callback and no stored
\* reference carries (the browser's handles only ever grow)
NewId(s) ==
    CHOOSE n \in 1..(Cardinality(s.pending) + 2) :
        /\ n \notin Ids(s.pending) \cup {s.rafRef}
        /\ \A m \in 1..(n - 1) : m \in Ids(s.pending) \cup {s.rafRef}

requestAnimationFrame(s, cb) ==
    [s EXCEPT !.pending = @ \cup {[cb EXCEPT !.id = NewId(s)]},
              !.rafRef = NewId(s)]

cancelAnimationFrame(pend, id) == {cb \in pend : cb.id # id}

\* lines 96-99, 133-136, 158-161: if (rafRef.current !== null) { cancel; null }
CancelRafLeak(s) == [s EXCEPT !.rafRef = null]

CancelRaf(s) ==
    IF s.rafRef # null
    THEN [s EXCEPT !.pending = cancelAnimationFrame(@, s.rafRef),
                   !.rafRef = null]
    ELSE s

----------------------------------------------------------------------------
(* One-shot run, lines 95-139                                              *)

totalDelta(from, to) == Abs(to - from)
signAlwaysUp(from, to) == 1

sign(from, to) == IF to >= from THEN 1 ELSE -1
\* Math.min(6, totalDelta * 0.12)
initialBoostTenfold(from, to) ==
    Min(6 * Unit, (totalDelta(from, to) * 12) \div 10)

initialBoostNone(from, to) == 0

initialBoost(from, to) == Min(6 * Unit, (totalDelta(from, to) * 12) \div 100)
boostedStartBackwards(from, to) == from - sign(from, to) * initialBoost(from, to)

boostedStart(from, to) == from + sign(from, to) * initialBoost(from, to)

\* Math.min(2600, Math.max(180, delta * perPercentMs)), in 1/TimeScale ms
durationMsNoFloor(delta) ==
    Min(maxDurationMs * TimeScale, (delta * perPercentMs) \div (Unit \div TimeScale))

durationMs(delta) ==
    Min(maxDurationMs * TimeScale,
        Max(minDurationMs * TimeScale,
            (delta * perPercentMs) \div (Unit \div TimeScale)))

\* lines 111-116, at t = k / EaseRes
easeOvershoot(k) == EaseTab[k + 1] + (k * (EaseScale \div 10)) \div EaseRes

ease(k) ==
    LET v == EaseTab[k + 1]
    IN  IF v < 0 THEN 0 ELSE IF v > EaseScale THEN EaseScale ELSE v

\* line 121: t = Math.min(1, (now - startTs) / durationMs), as k = floor(t * EaseRes)
tOf(cb) ==
    Min(EaseRes, (cb.elapsed * TimeScale * EaseRes) \div cb.durationMs)

\* line 124: t < 1
tBelowOne(cb) == cb.elapsed * TimeScale < cb.durationMs

\* line 122
stepValue(cb) ==
    cb.boostedStart + ((cb.to - cb.boostedStart) \div EaseScale) * ease(tOf(cb))

\* lines 119-130
stepNeverEnds(s, cb) ==
    requestAnimationFrame([s EXCEPT !.displayPercent = stepValue(cb)], cb)

stepKeepsHandle(s, cb) ==
    LET s1 == [s EXCEPT !.displayPercent = stepValue(cb)]
    IN  IF tBelowOne(cb)
        THEN requestAnimationFrame(s1, cb)
        ELSE [s1 EXCEPT !.isAnimating = FALSE]

step(s, cb) ==
    LET s1 == [s EXCEPT !.displayPercent = stepValue(cb)]
    IN  IF tBelowOne(cb)
        THEN requestAnimationFrame(s1, cb)
        ELSE [s1 EXCEPT !.rafRef = null, !.isAnimating = FALSE]

\* lines 132-138
oneShotCleanupNoCancel(s) == [s EXCEPT !.isAnimating = FALSE]

oneShotCleanupKeepsAnimating(s) == CancelRaf(s)

oneShotCleanup(s) == [CancelRaf(s) EXCEPT !.isAnimating = FALSE]

\* lines 95-139, the effect body when !perpetual
oneShotEffectStaleTarget(s, p) ==
    LET from == clampedStart(p)
        to == clampedEnd(p)
        bs == boostedStart(from, to)
        cb == [NoCb EXCEPT !.kind = "step", !.boostedStart = bs, !.to = from,
                           !.durationMs = durationMs(Abs(to - bs)),
                           !.elapsed = 0]
        s1 == [CancelRaf(s) EXCEPT !.displayPercent = bs, !.isAnimating = TRUE]
    IN  [requestAnimationFrame(s1, cb) EXCEPT !.cleanup = "oneShot"]

oneShotEffectNotAnimating(s, p) ==
    LET from == clampedStart(p)
        to == clampedEnd(p)
        bs == boostedStart(from, to)
        cb == [NoCb EXCEPT !.kind = "step", !.boostedStart = bs, !.to = to,
                           !.durationMs = durationMs(Abs(to - bs)),
                           !.elapsed = 0]
        s1 == [CancelRaf(s) EXCEPT !.displayPercent = bs]
    IN  [requestAnimationFrame(s1, cb) EXCEPT !.cleanup = "oneShot"]

oneShotEffect(s, p) ==
    LET from == clampedStart(p)
        to == clampedEnd(p)
        bs == boostedStart(from, to)
        cb == [NoCb EXCEPT !.kind = "step", !.boostedStart = bs, !.to = to,
                           !.durationMs = durationMs(Abs(to - bs)),
                           !.elapsed = 0]
        s1 == [CancelRaf(s) EXCEPT !.displayPercent = bs, !.isAnimating = TRUE]
    IN  [requestAnimationFrame(s1, cb) EXCEPT !.cleanup = "oneShot"]

----------------------------------------------------------------------------
(* Perpetual run, lines 141-162                                            *)

\* line 151, value of the sway at elapsed ms
tickValueCosine(cb) ==
    cb.center
    + (cb.amplitude
       * SinTab[((((cb.elapsed + periodMs \div 4) % periodMs) * SinRes)
                 \div periodMs) + 1])
      \div EaseScale

tickValue(cb) ==
    cb.center
    + (cb.amplitude * SinTab[((cb.elapsed % periodMs) * SinRes) \div periodMs + 1])
      \div EaseScale

\* lines 148-154
tickNoReschedule(s, cb) == [s EXCEPT !.displayPercent = tickValue(cb), !.rafRef = null]

tick(s, cb) ==
    requestAnimationFrame([s EXCEPT !.displayPercent = tickValue(cb)], cb)

\* lines 157-162
perpetualCleanupKeepsHandle(s) ==
    [s EXCEPT !.pending = cancelAnimationFrame(@, s.rafRef)]

perpetualCleanup(s) == CancelRaf(s)

\* lines 141-162, the effect body when perpetual
perpetualEffectFullSpan(s, p) ==
    LET min == Min(clampedStart(p), clampedEnd(p))
        max == Max(clampedStart(p), clampedEnd(p))
        cb == [NoCb EXCEPT !.kind = "tick", !.center = (min + max) \div 2,
                           !.amplitude = max - min, !.elapsed = 0]
    IN  [requestAnimationFrame(s, cb) EXCEPT !.cleanup = "perpetual"]

perpetualEffect(s, p) ==
    LET min == Min(clampedStart(p), clampedEnd(p))
        max == Max(clampedStart(p), clampedEnd(p))
        cb == [NoCb EXCEPT !.kind = "tick", !.center = (min + max) \div 2,
                           !.amplitude = (max - min) \div 2, !.elapsed = 0]
    IN  [requestAnimationFrame(s, cb) EXCEPT !.cleanup = "perpetual"]

\* lines 94-163
animationEffect(s, p) ==
    IF ~p.perpetual THEN oneShotEffect(s, p) ELSE perpetualEffect(s, p)

\* the cleanup the animation effect returned when it last ran
runCleanup(s) ==
    IF s.cleanup = "oneShot" THEN oneShotCleanup(s)
    ELSE IF s.cleanup = "perpetual" THEN perpetualCleanup(s)
    ELSE s

\* lines 166-174
smoothingEffectNoWrite(s, p) ==
    IF p.perpetual THEN s ELSE [s EXCEPT !.mountedRef = TRUE]

smoothingEffect(s, p) ==
    IF p.perpetual THEN s
    ELSE [s EXCEPT !.mountedRef = TRUE, !.displayPercent = clampedEnd(p)]

\* dependency lists, lines 163 and 174
animationDepsRawProps(p) == <<p.perpetual, p.startValue, p.endValue>>

animationDepsModeOnly(p) == <<p.perpetual>>

animationDeps(p) == <<p.perpetual, clampedStart(p), clampedEnd(p)>>
smoothingDeps(p) == <<p.perpetual, clampedEnd(p)>>

\* line 182
progressPercent == clampPercentage(Num(displayPercent))
\* line 181
angle == mapPercentToAngle(displayPercent, halfSweep)
\* lines 278, 337, 349: transition: !perpetual && !isAnimating ? "..." : undefined
transitionEnabled == ~props.perpetual /\ ~isAnimating

\* lines 187-188: the arc path's end points, degrees clockwise from +x in
\* SVG coordinates (y grows downwards)
startAngleDeg == 180 - droopDeg
endAngleDeg == droopDeg
\* line 194: large-arc 1, sweep 1: the path runs clockwise over the top
arcSweepDeg == endAngleDeg + 360 - startAngleDeg
\* lines 336-340: pathLength 100, strokeDasharray "progressPercent 100",
\* offset 0: the dash covers progressPercent/100 of the path from its start.
\* Where it ends, in the needle's frame (line 358: the needle points up at
\* rotate(0), i.e. at -90 degrees of the SVG frame), in Unit degrees.
arcEndAngle ==
    (startAngleDeg + 90 - 360) * Unit + (progressPercent * arcSweepDeg) \div 100

----------------------------------------------------------------------------
(* The state machine                                                       *)

Cells ==
    [displayPercent |-> displayPercent, isAnimating |-> isAnimating,
     rafRef |-> rafRef, mountedRef |-> mountedRef, cleanup |-> cleanup,
     pending |-> pending]

Store(s) ==
    /\ displayPercent' = s.displayPercent
    /\ isAnimating' = s.isAnimating
    /\ rafRef' = s.rafRef
    /\ mountedRef' = s.mountedRef
    /\ cleanup' = s.cleanup
    /\ pending' = s.pending

Init ==
    /\ life = "unmounted"
    /\ props = [startValue |-> NaN, endValue |-> NaN, perpetual |-> FALSE]
    /\ effectsQueue = {}
    /\ displayPercent = 0
    /\ isAnimating = FALSE
    /\ rafRef = null
    /\ mountedRef = FALSE
    /\ cleanup = "none"
    /\ pending = {}
    /\ fired = NoCb
    /\ lastOp = "init"
    /\ hadPending = FALSE
    /\ runOrigin = "none"
    /\ propsChanged = FALSE
    /\ cancelled = {}

\* first render: useState(clampedStart), useState(false), useRef(null), useRef(false)
MountWith(P) ==
    /\ life = "unmounted"
    /\ \E p \in P :
        /\ props' = p
        /\ displayPercent' = clampedStart(p)
    /\ life' = "mounted"
    /\ effectsQueue' = {"anim", "smooth"}
    /\ fired' = NoCb
    /\ lastOp' = "mount"
    /\ hadPending' = FALSE
    /\ propsChanged' = FALSE
    /\ cancelled' = {}
    /\ UNCHANGED runOrigin
    /\ UNCHANGED <<isAnimating, rafRef, mountedRef, cleanup, pending>>

\* a re-render, with the same props (the parent re-rendered, or only type,
\* label or subLabel changed) or with new ones: the effects whose dependencies
\* changed are queued
RenderWith(P) ==
    /\ life = "mounted"
    /\ effectsQueue = {}
    /\ \E p \in P \cup {props} :
        /\ props' = p
        /\ propsChanged' = (p # props)
        /\ effectsQueue' =
              (IF animationDeps(p) # animationDeps(props)
               THEN {"cleanup", "anim"} ELSE {})
              \cup
              (IF smoothingDeps(p) # smoothingDeps(props)
               THEN {"smooth"} ELSE {})
    /\ fired' = NoCb
    /\ lastOp' = "render"
    /\ cancelled' = {}
    /\ hadPending' = (pending # {})
    /\ UNCHANGED runOrigin
    /\ UNCHANGED <<life, displayPercent, isAnimating, rafRef, mountedRef,
                   cleanup, pending>>

Unmount ==
    /\ life = "mounted"
    /\ effectsQueue = {}
    /\ life' = "gone"
    /\ effectsQueue' = {"cleanup"}
    /\ fired' = NoCb
    /\ lastOp' = "unmount"
    /\ hadPending' = (pending # {})
    /\ propsChanged' = FALSE
    /\ cancelled' = {}
    /\ UNCHANGED runOrigin
    /\ UNCHANGED <<props, displayPercent, isAnimating, rafRef, mountedRef,
                   cleanup, pending>>

\* the passive effects of the last commit: cleanups first, then the effects in
\* declaration order; the setters they call are applied as one batch
FlushEffects ==
    /\ effectsQueue # {}
    /\ LET s1 == IF "cleanup" \in effectsQueue THEN runCleanup(Cells) ELSE Cells
           s2 == IF "anim" \in effectsQueue THEN animationEffect(s1, props) ELSE s1
           s3 == IF "smooth" \in effectsQueue THEN smoothingEffect(s2, props) ELSE s2
       IN  /\ Store(s3)
           /\ cancelled' = (pending \ s1.pending)
                            \cup (IF "anim" \in effectsQueue /\ ~props.perpetual
                                  THEN s1.pending \ CancelRaf(s1).pending
                                  ELSE {})
    /\ effectsQueue' = {}
    /\ fired' = NoCb
    /\ lastOp' = "effects"
    /\ hadPending' = (pending # {})
    /\ propsChanged' = FALSE
    /\ runOrigin' = IF life = "gone" THEN "none"
                    ELSE IF "anim" \notin effectsQueue THEN runOrigin
                    ELSE IF "cleanup" \notin effectsQueue THEN "mount"
                    ELSE IF pending # {} THEN "restart"
                    ELSE "update"
    /\ UNCHANGED <<life, props>>

\* time passing by dt for every scheduled callback's closure.  Only
\* now - startTs is kept: a tick reads it through sin(2*pi*t), of period
\* periodMs; a step reads it through min(1, elapsed / durationMs), which is 1
\* from maxDurationMs on.
Advance(cb, dt) ==
    [cb EXCEPT !.elapsed = IF cb.kind = "tick" THEN (@ + dt) % periodMs
                           ELSE Min(@ + dt, maxDurationMs)]

\* the browser runs a scheduled frame callback, dt ms after the last event
Frame ==
    /\ pending # {}
    /\ \E c \in pending, dt \in FrameGaps :
        LET cb == Advance(c, dt)
            s0 == [Cells EXCEPT !.pending = {Advance(x, dt) : x \in pending \ {c}}]
        IN  /\ Store(IF cb.kind = "step" THEN step(s0, cb) ELSE tick(s0, cb))
            /\ fired' = cb
    /\ lastOp' = "frame"
    /\ hadPending' = TRUE
    /\ propsChanged' = FALSE
    /\ cancelled' = {}
    /\ UNCHANGED runOrigin
    /\ UNCHANGED <<life, props, effectsQueue>>

Mount == MountWith(Props)
Render == RenderWith(Props)

Next == Mount \/ Render \/ Unmount \/ FlushEffects \/ Frame

Spec == Init /\ [][Next]_vars

\* the browser keeps delivering display frames while a callback is scheduled, and
\* React runs the passive effects of every commit
LiveMount == MountWith(LiveProps)
LiveRender == RenderWith(LiveProps)
LiveNext == LiveMount \/ LiveRender \/ Unmount \/ FlushEffects \/ Frame

LiveSpec ==
    Init /\ [][LiveNext]_vars /\ WF_vars(Frame) /\ WF_vars(FlushEffects)

\* one mounted instance per pair of bounds, run to its end
WideMount == MountWith(WideProps)
WideNext == WideMount \/ FlushEffects \/ Frame

WideSpec == Init /\ [][WideNext]_vars

TypeOK ==
    /\ life \in {"unmounted", "mounted", "gone"}
    /\ props \in Props \cup WideProps
    /\ effectsQueue \subseteq {"cleanup", "anim", "smooth"}
    /\ displayPercent \in Int
    /\ isAnimating \in BOOLEAN
    /\ rafRef \in Nat
    /\ mountedRef \in BOOLEAN
    /\ cleanup \in {"none", "oneShot", "perpetual"}
    /\ \A cb \in pending : cb.kind \in {"step", "tick"} /\ cb.id # null
    /\ lastOp \in {"init", "mount", "render", "unmount", "effects", "frame"}
    /\ hadPending \in BOOLEAN
    /\ runOrigin \in {"none", "mount", "update", "restart"}
    /\ propsChanged \in BOOLEAN
    /\ cancelled \subseteq {cb \in cancelled : cb.kind \in {"step", "tick"}}

----------------------------------------------------------------------------
(* Vocabulary of the properties                                            *)

\* the effects of the last commit have run and the instance is mounted
Published == life = "mounted" /\ effectsQueue = {}
\* the cleanup of the unmount has run
TornDown == life = "gone" /\ effectsQueue = {}

\* cb belongs to a run started from the props p
FromRun(cb, p) ==
    IF p.perpetual
    THEN /\ cb.kind = "tick"
         /\ cb.center = (clampedStart(p) + clampedEnd(p)) \div 2
         /\ cb.amplitude = Abs(clampedEnd(p) - clampedStart(p)) \div 2
    ELSE /\ cb.kind = "step"
         /\ cb.to = clampedEnd(p)
         /\ cb.boostedStart = boostedStart(clampedStart(p), clampedEnd(p))

\* the value the callback cb writes
ValueOf(cb) == IF cb.kind = "step" THEN stepValue(cb) ELSE tickValue(cb)

----------------------------------------------------------------------------
(* C1: at most one scheduled frame callback is pending at any time, after  *)
(* any sequence of mount, prop changes, frames and unmount.                *)
C1_AtMostOnePending == Cardinality(pending) <= 1

\* a run has just replaced an active run
C1_Witness ==
    /\ lastOp = "effects" /\ runOrigin = "restart" /\ hadPending
    /\ Cardinality(pending) = 1

(* C2: once the cleanup of the unmount has run, in either mode, no frame   *)
(* callback is pending and none fires: no step or tick writes              *)
(* displayPercent after teardown, even when one was scheduled at teardown. *)
C2_NoTickAfterTeardown ==
    TornDown => /\ pending = {}
                /\ rafRef = null
                /\ fired = NoCb

\* torn down while a callback was scheduled
C2_Witness == TornDown /\ hadPending /\ lastOp = "effects"

(* C3: after perpetual or a clamped bound changed and the effects ran, the *)
(* only scheduled callback is the new run's, and every callback that fires *)
(* from then on is the new run's: what it writes is computed from the new  *)
(* mode and the new clamped bounds.                                        *)
C3_OnlyCurrentRunWrites ==
    Published =>
        /\ \A cb \in pending : FromRun(cb, props)
        /\ fired # NoCb => FromRun(fired, props) /\ displayPercent = ValueOf(fired)

\* a callback of a run that replaced an active run has fired
C3_Witness ==
    /\ Published /\ runOrigin = "restart"
    /\ fired # NoCb /\ lastOp = "frame"

OneShotSettled ==
    /\ Published /\ ~props.perpetual
    /\ ~isAnimating /\ pending = {} /\ rafRef = null
    /\ displayPercent = clampedEnd(props)

C5_OneShotTerminates ==
    (Published /\ ~props.perpetual) ~> (OneShotSettled \/ ~Published \/ props.perpetual)

\* a run that took more than one frame has settled
C5_Witness ==
    /\ OneShotSettled /\ lastOp = "frame"
    /\ fired.elapsed > MaxGapUnits * FrameUnitMs

(* C6: in every reachable state, whatever startValue and endValue are (NaN,*)
(* negative, above 100) and in either mode, the stored displayPercent is   *)
(* in [0, 100].                                                            *)
C6_DisplayPercentInRange == displayPercent >= 0 /\ displayPercent <= 100 * Unit

\* a callback has written displayPercent under out-of-range props
C6_Witness ==
    /\ fired # NoCb
    /\ props.startValue = NaN
    /\ props.endValue = Num(150 * Unit)
    /\ displayPercent = 100 * Unit

(* C7, as stated: in every rendered state with perpetual = true,           *)
(* isAnimating is false.                                                   *)
C7_Original == (life = "mounted" /\ props.perpetual) => ~isAnimating

(* C7, amended: in every state with perpetual = true in which the effects  *)
(* of the last render have run, isAnimating is false.                      *)
C7_PerpetualNotAnimating == (Published /\ props.perpetual) => ~isAnimating

\* switched to perpetual while a one-shot run was active
C7_Witness ==
    /\ Published /\ props.perpetual
    /\ lastOp = "effects" /\ runOrigin = "restart"
    /\ \E cb \in pending : cb.kind = "tick"

(* C8: a perpetual run never ends by itself: while mounted with            *)
(* perpetual = true and the effects run, exactly one tick is scheduled and *)
(* rafRef names it; every tick that fires has scheduled the next one.      *)
C8_PerpetualKeepsTicking ==
    /\ (Published /\ props.perpetual) =>
            /\ Cardinality(pending) = 1
            /\ \A cb \in pending : cb.kind = "tick" /\ cb.id = rafRef
    /\ fired.kind = "tick" =>
            \E cb \in pending : cb.kind = "tick" /\ cb.id = rafRef

\* a tick has fired a whole period after the run started
C8_Witness ==
    /\ Published /\ props.perpetual
    /\ fired.kind = "tick" /\ lastOp = "frame"
    /\ fired.elapsed = 0
    /\ fired.amplitude > 0

(* C9, as stated, for the frames that fire once the effects of the last   *)
(* commit have run: every value a step or tick writes is published in a    *)
(* state where the style transitions are off (perpetual or isAnimating); a *)
(* frame callback never changes displayPercent into a state with           *)
(* perpetual = false and isAnimating = false.                              *)
C9_TickWritesSuppressTransitions ==
    [][(lastOp' = "frame" /\ Published' /\ displayPercent' # displayPercent)
        => ~transitionEnabled']_vars

C11_RunStartsAtBoostedStart ==
    (Published /\ lastOp = "effects" /\ ~props.perpetual)
        => displayPercent = boostedStart(clampedStart(props), clampedEnd(props))

(* C12: every value a perpetual tick writes is in [min, max] of the two    *)
(* clamped bounds, whichever prop is the larger: the centre at elapsed 0   *)
(* and at half a period, max at a quarter period, min at three quarters.   *)
C12_SwayRange ==
    fired.kind = "tick" =>
        LET lo == fired.center - fired.amplitude
            hi == fired.center + fired.amplitude
        IN  /\ displayPercent >= lo /\ displayPercent <= hi
            /\ fired.elapsed \in {0, periodMs \div 2} => displayPercent = fired.center
            /\ fired.elapsed = periodMs \div 4 => displayPercent = hi
            /\ fired.elapsed = 3 * (periodMs \div 4) => displayPercent = lo
            /\ Published =>
                  /\ lo = Min(clampedStart(props), clampedEnd(props))
                  /\ hi = Max(clampedStart(props), clampedEnd(props))

\* the sway is at its top a quarter period in, with startValue the larger prop
C12_Witness ==
    /\ Published /\ props.perpetual
    /\ fired.kind = "tick" /\ fired.elapsed = periodMs \div 4
    /\ clampedStart(props) = 70 * Unit /\ clampedEnd(props) = 30 * Unit
    /\ displayPercent = 70 * Unit

(* C13: a one-shot run works with the bounds in either order: when         *)
(* clamp(endValue) < clamp(startValue) the boost goes down (boostedStart   *)
(* <= from), every step value is in [to, boostedStart], and the run settles*)
(* at to = clamp(endValue), as an ascending run does.                      *)
C13_DescendingRun ==
    /\ (Published /\ ~props.perpetual /\ clampedEnd(props) < clampedStart(props)) =>
            /\ sign(clampedStart(props), clampedEnd(props)) = -1
            /\ \A cb \in pending :
                  /\ cb.boostedStart <= clampedStart(props)
                  /\ cb.boostedStart >= cb.to
                  /\ cb.to = clampedEnd(props)
            /\ pending = {} => displayPercent = clampedEnd(props)
    /\ (fired.kind = "step" /\ fired.to < fired.boostedStart) =>
            /\ displayPercent >= fired.to
            /\ displayPercent <= fired.boostedStart
            /\ ~tBelowOne(fired) => displayPercent = fired.to
    /\ (fired.kind = "step" /\ fired.to >= fired.boostedStart) =>
            /\ displayPercent <= fired.to
            /\ displayPercent >= fired.boostedStart
            /\ ~tBelowOne(fired) => displayPercent = fired.to

\* a descending run from 100 has settled at 30
C13_Witness ==
    /\ Published /\ ~props.perpetual /\ lastOp = "frame"
    /\ clampedStart(props) = 100 * Unit /\ clampedEnd(props) = 30 * Unit
    /\ fired.kind = "step" /\ fired.boostedStart = 94 * Unit
    /\ pending = {} /\ displayPercent = 30 * Unit

(* C14: for all clamped from, to in [0,100]: initialBoost is at most 6 and *)
(* at most the distance |to - from|; boostedStart lies between from and to,*)
(* on the side of the target; the boost is 0 when from = to.               *)
C14_BoostBounded ==
    life = "mounted" =>
        LET from == clampedStart(props)
            to == clampedEnd(props)
            b == initialBoost(from, to)
            bs == boostedStart(from, to)
        IN  /\ b >= 0 /\ b <= 6 * Unit /\ b <= Abs(to - from)
            /\ bs >= Min(from, to) /\ bs <= Max(from, to)
            /\ Abs(to - bs) = Abs(to - from) - b
            /\ from = to => b = 0 /\ bs = from
            /\ \A cb \in pending : cb.kind = "step" => cb.boostedStart = bs

\* a short run whose boost is below the cap of 6, scheduled
C14_Witness ==
    /\ Published /\ lastOp = "effects"
    /\ clampedStart(props) = 10 * Unit /\ clampedEnd(props) = 7 * Unit
    /\ \E cb \in pending : cb.boostedStart = 10 * Unit - (36 * Unit) \div 100

(* C15: durationMs = min(2600, max(180, 24 * |to - boostedStart|)) is in   *)
(* [180, 2600], does not decrease when |to - boostedStart| grows, and is   *)
(* the floor 180 whenever 24 * |to - boostedStart| < 180.                  *)
C15_DurationBounded ==
    \A cb \in pending :
        cb.kind = "step" =>
            LET delta == Abs(cb.to - cb.boostedStart)
            IN  /\ cb.durationMs = durationMs(delta)
                /\ cb.durationMs >= minDurationMs * TimeScale
                /\ cb.durationMs <= maxDurationMs * TimeScale
                /\ delta * perPercentMs < minDurationMs * Unit
                      => cb.durationMs = minDurationMs * TimeScale
                /\ delta * perPercentMs >= minDurationMs * Unit
                      => cb.durationMs * (Unit \div TimeScale) = delta * perPercentMs
                /\ \A n \in WidePercents :
                      /\ n * Unit <= delta => durationMs(n * Unit) <= cb.durationMs
                      /\ n * Unit >= delta => durationMs(n * Unit) >= cb.durationMs

\* the run from 0 to 1 is scheduled with the floor duration
C15_Witness ==
    /\ Published /\ props.startValue = Num(0) /\ props.endValue = Num(Unit)
    /\ \E cb \in pending :
          /\ cb.kind = "step"
          /\ cb.durationMs = minDurationMs * TimeScale
          /\ Abs(cb.to - cb.boostedStart) = (88 * Unit) \div 100

(* C16, as stated: the run from 0 to 100 has durationMs at the ceiling,    *)
(* 2600 ms.                                                                *)
C16_Original ==
    (clampedStart(props) = 0 /\ clampedEnd(props) = 100 * Unit) =>
        \A cb \in pending :
            cb.kind = "step" => cb.durationMs = maxDurationMs * TimeScale

(* C16, amended: the run from 0 to 100 has durationMs = 24 * 94 = 2256 ms, *)
(* below the ceiling of 2600 ms.                                           *)
C16_FullRunDuration ==
    (Published /\ clampedStart(props) = 0 /\ clampedEnd(props) = 100 * Unit) =>
        \A cb \in pending :
            cb.kind = "step" =>
                /\ cb.durationMs = 2256 * TimeScale
                /\ cb.durationMs < maxDurationMs * TimeScale

\* the run from 0 to 100 is scheduled
C16_Witness ==
    /\ Published /\ lastOp = "effects"
    /\ props.startValue = Num(0) /\ props.endValue = Num(100 * Unit)
    /\ \E cb \in pending : cb.kind = "step" /\ cb.boostedStart = 6 * Unit

(* C17: clampPercentage gives 0 for NaN and for every v < 0, 100 for every *)
(* v > 100 and v itself otherwise; its result is in [0,100] and clamping   *)
(* twice is clamping once.                                                 *)
ClampedAsDocumented(value) ==
    LET c == clampPercentage(value)
    IN  /\ c >= 0 /\ c <= 100 * Unit
        /\ value.nan => c = 0
        /\ (~value.nan /\ value.v < 0) => c = 0
        /\ (~value.nan /\ value.v > 100 * Unit) => c = 100 * Unit
        /\ (~value.nan /\ value.v >= 0 /\ value.v <= 100 * Unit) => c = value.v
        /\ clampPercentage(Num(c)) = c

C17_ClampTotalIdempotent ==
    /\ ClampedAsDocumented(props.startValue)
    /\ ClampedAsDocumented(props.endValue)
    /\ ClampedAsDocumented(Num(displayPercent))

\* a negative start and an end above 100, clamped on mount
C17_Witness ==
    /\ life = "mounted" /\ lastOp = "mount"
    /\ props.startValue = Num(-5 * Unit) /\ props.endValue = Num(150 * Unit)
    /\ displayPercent = 0

(* C18: mapPercentToAngle(percent, h) = -h + percent * 2h / 100 for percent*)
(* in [0,100]: -h at 0, 0 at 50, +h at 100 (h = 90 and h = 90 + 14),       *)
(* strictly increasing in percent, with its result in [-h, h].             *)
AngleAsDocumented(percent, h) ==
    LET a == mapPercentToAngle(percent, h)
    IN  /\ a >= -(h * Unit) /\ a <= h * Unit
        /\ 100 * (a + h * Unit) <= percent * 2 * h
        /\ 100 * (a + h * Unit) > percent * 2 * h - 100
        /\ percent = 0 => a = -(h * Unit)
        /\ percent = 50 * Unit => a = 0
        /\ percent = 100 * Unit => a = h * Unit
        /\ \A n \in WidePercents :
              /\ n * Unit < percent => mapPercentToAngle(n * Unit, h) < a
              /\ n * Unit > percent => mapPercentToAngle(n * Unit, h) > a

C18_AngleMapping ==
    (displayPercent >= 0 /\ displayPercent <= 100 * Unit) =>
        /\ AngleAsDocumented(displayPercent, 90)
        /\ AngleAsDocumented(displayPercent, halfSweep)
        /\ angle = mapPercentToAngle(displayPercent, 90 + 14)

\* the needle of a gauge that settled at 100 is at +104 degrees
C18_Witness ==
    /\ Published /\ lastOp = "frame" /\ pending = {}
    /\ displayPercent = 100 * Unit
    /\ angle = 104 * Unit
    /\ mapPercentToAngle(displayPercent, 90) = 90 * Unit

(* C19: in every rendered state the needle and the progress arc agree: the *)
(* needle angle, computed from displayPercent, is the angle of             *)
(* progressPercent = clamp(displayPercent), the dash length out of 100, so *)
(* it is within [-104, 104].                                               *)
C19_NeedleMeetsArc ==
    /\ angle = mapPercentToAngle(progressPercent, halfSweep)
    /\ angle = arcEndAngle
    /\ progressPercent = displayPercent
    /\ angle >= -(104 * Unit) /\ angle <= 104 * Unit

\* mid-sway, the needle is off the centre and the arc ends under it
C19_Witness ==
    /\ Published /\ props.perpetual /\ fired.kind = "tick"
    /\ displayPercent > fired.center
    /\ angle > 0 /\ angle < 104 * Unit
    /\ arcEndAngle = angle

(* C20: in one-shot mode, once the effects of the last mount or prop       *)
(* change have run, isAnimating is true exactly when a one-shot step is    *)
(* scheduled: true from the scheduling on, across every step with t < 1,   *)
(* false from the step that stops scheduling or the cleanup that cancels.  *)
C20_AnimatingIffStepPending ==
    /\ (Published /\ ~props.perpetual) =>
            (isAnimating <=> \E cb \in pending : cb.kind = "step" /\ cb.id = rafRef)
    /\ (fired.kind = "step" /\ life = "mounted" /\ cleanup = "oneShot") =>
            (isAnimating <=> tBelowOne(fired))
    /\ (TornDown /\ cleanup = "oneShot") => ~isAnimating /\ pending = {}

\* a step with t < 1 has fired and the run goes on
C20_Witness ==
    /\ Published /\ ~props.perpetual /\ lastOp = "frame"
    /\ fired.kind = "step" /\ tBelowOne(fired)
    /\ isAnimating /\ Cardinality(pending) = 1

(* C21: a re-render that leaves perpetual, clamp(startValue) and           *)
(* clamp(endValue) unchanged (150 -> 200, -5 -> NaN, or the same props)    *)
(* queues no effect: the pending callback with its start time and bounds,  *)
(* rafRef, displayPercent and isAnimating are left as they were.           *)
C21_SameClampedPropsKeepRun ==
    [][(/\ lastOp' = "render"
        /\ props'.perpetual = props.perpetual
        /\ clampedStart(props') = clampedStart(props)
        /\ clampedEnd(props') = clampedEnd(props))
       => /\ effectsQueue' = {}
          /\ UNCHANGED <<pending, rafRef, cleanup, displayPercent, isAnimating,
                         mountedRef, runOrigin>>]_vars

\* startValue went to 200 and endValue to NaN in the middle of a one-shot run
\* from 100 to 0, which goes on
C21_Witness ==
    /\ lastOp = "render" /\ propsChanged /\ Published
    /\ props.startValue = Num(200 * Unit) /\ props.endValue = NaN
    /\ ~props.perpetual /\ isAnimating
    /\ \E cb \in pending :
          /\ cb.id = rafRef /\ cb.kind = "step" /\ cb.elapsed > 0
          /\ cb.to = 0 /\ cb.boostedStart = 94 * Unit

(* C22: every displayPercent a one-shot step writes lies between           *)
(* boostedStart and to (ease is within [0,1], ease(0) = 0, ease(1) = 1),   *)
(* so mid-run values stay within [min(from,to), max(from,to)]; for from =  *)
(* 0, to = 54 every value is within [-3, 57].                              *)
C22_StepValuesInEnvelope ==
    /\ \A k \in 0..EaseRes : ease(k) >= 0 /\ ease(k) <= EaseScale
    /\ ease(0) = 0 /\ ease(EaseRes) = EaseScale
    /\ fired.kind = "step" =>
          /\ displayPercent = stepValue(fired)
          /\ displayPercent >= Min(fired.boostedStart, fired.to)
          /\ displayPercent <= Max(fired.boostedStart, fired.to)
          /\ displayPercent >= Min(clampedStart(props), clampedEnd(props))
          /\ displayPercent <= Max(clampedStart(props), clampedEnd(props))
    /\ (clampedStart(props) = 0 /\ clampedEnd(props) = 54 * Unit) =>
          displayPercent >= -(3 * Unit) /\ displayPercent <= 57 * Unit

\* a step in the middle of the run from 0 to 54
C22_Witness ==
    /\ props.startValue = Num(0) /\ props.endValue = Num(54 * Unit)
    /\ fired.kind = "step" /\ tBelowOne(fired)
    /\ fired.boostedStart = 6 * Unit /\ fired.to = 54 * Unit
    /\ displayPercent > 6 * Unit /\ displayPercent < 54 * Unit

(* C23: between callbacks, rafRef.current is non-null exactly when a       *)
(* scheduled callback is pending: it is null before mount, after a         *)
(* one-shot run completes and after every cleanup, and otherwise it is the *)
(* handle of the single pending callback, never of the one that just fired *)
(* or of one that was cancelled and not replaced.                          *)
C23_HandleIffPending ==
    /\ (rafRef # null) <=> (pending # {})
    /\ rafRef # null => \E cb \in pending : pending = {cb} /\ cb.id = rafRef
    /\ life = "unmounted" => rafRef = null
    /\ (fired.kind = "step" /\ ~tBelowOne(fired)) => rafRef = null
    /\ TornDown => rafRef = null
    /\ fired # NoCb => rafRef # fired.id /\ fired \notin pending
    /\ cancelled \cap pending = {} \/ (\E cb \in pending : cb.elapsed = 0)

\* the unmount cleanup cancelled a sway that had been running
C23_Witness ==
    /\ TornDown /\ lastOp = "effects" /\ rafRef = null /\ pending = {}
    /\ \E cb \in cancelled : cb.kind = "tick" /\ cb.elapsed > 0

(* C24: in perpetual mode a change of clamp(startValue) or clamp(endValue) *)
(* cancels the pending tick and starts a new sway whose phase origin is    *)
(* the restart: the new tick is scheduled at phase 0, where the sway is at *)
(* the centre of the new bounds, and the first tick of the new run writes  *)
(* the value at the time since the restart, wherever in its cycle the      *)
(* cancelled sway was.                                                     *)
C24_SwayRestartsAtPhaseZero ==
    [][/\ (/\ lastOp' = "render"
           /\ props.perpetual /\ props'.perpetual
           /\ \/ clampedStart(props') # clampedStart(props)
              \/ clampedEnd(props') # clampedEnd(props))
          => {"cleanup", "anim"} \subseteq effectsQueue'
       /\ (/\ lastOp' = "effects"
           /\ life' = "mounted" /\ props'.perpetual
           /\ \E old \in cancelled' : old.kind = "tick")
          => /\ cancelled' = pending
             /\ \E cb \in pending' :
                   /\ pending' = {cb} /\ cb.id = rafRef'
                   /\ FromRun(cb, props')
                   /\ cb.elapsed = 0
                   /\ tickValue(cb) = cb.center
                   /\ cb.center =
                        (clampedStart(props') + clampedEnd(props')) \div 2
       /\ (/\ lastOp = "effects" /\ lastOp' = "frame"
           /\ life = "mounted" /\ props.perpetual
           /\ \E old \in cancelled : old.kind = "tick")
          => /\ FromRun(fired', props)
             /\ fired'.elapsed \in FrameGaps
             /\ displayPercent' = tickValue(fired')]_vars

\* a sway between 0 and 100 was cancelled at its peak, and the new sway
\* between 30 and 70 is scheduled at phase 0
C24_Witness ==
    /\ Published /\ lastOp = "effects" /\ props.perpetual
    /\ \E old \in cancelled :
          /\ old.kind = "tick" /\ old.elapsed = periodMs \div 4
          /\ old.amplitude = 50 * Unit
    /\ \E cb \in pending :
          /\ cb.kind = "tick" /\ cb.elapsed = 0
          /\ cb.center = 50 * Unit /\ cb.amplitude = 20 * Unit
    /\ displayPercent = 100 * Unit

(* C25: for all clamped from, to in [0,100] the remaining distance         *)
(* |to - boostedStart| is at most 94, so durationMs is at most 2256 ms:    *)
(* the ceiling of 2600 ms in min(2600, ...) never binds.                   *)
C25_CeilingNeverBinds ==
    LET from == clampedStart(props)
        to == clampedEnd(props)
        delta == Abs(to - boostedStart(from, to))
    IN  /\ delta <= 94 * Unit
        /\ delta * perPercentMs <= 2256 * Unit
        /\ delta * perPercentMs < maxDurationMs * Unit
        /\ durationMs(delta) <= 2256 * TimeScale
        /\ durationMs(delta) =
              Max(minDurationMs * TimeScale,
                  (delta * perPercentMs) \div (Unit \div TimeScale))
        /\ \A cb \in pending :
              cb.kind = "step" =>
                  /\ Abs(cb.to - cb.boostedStart) <= 94 * Unit
                  /\ cb.durationMs <= 2256 * TimeScale

\* the longest run, from 100 down to 0, is scheduled with 2256 ms
C25_Witness ==
    /\ Published /\ lastOp = "effects"
    /\ props.startValue = Num(100 * Unit) /\ props.endValue = Num(0)
    /\ \E cb \in pending :
          /\ cb.kind = "step" /\ cb.boostedStart = 94 * Unit
          /\ cb.durationMs = 2256 * TimeScale

====
